---- MODULE Spec2Model ----
(***************************************************************************)
(* Model of the stitching gateway of src/lib/make_remote_executor.js:      *)
(* the remote executor, the start-up sequence (introspection, stitching,   *)
(* listen), the per-request context, the StateMeta.hey and StateMeta.batch *)
(* resolvers, and the two callbacks handed to batchDelegateToSchema        *)
(* (resultTransformer and valuesFromResults).                              *)
(***************************************************************************)
EXTENDS Integers, Sequences, FiniteSets, TLC

VARIABLES
  fnKeys,      \* valuesFromResults: the `keys` argument
  fnResponse,  \* the value found under allFipsCodeStates in the remote answer
  fnGroups,    \* what resultTransformer returned for fnResponse
  fnOut,       \* what valuesFromResults returned or threw
  fnPc,        \* position in the transform -> map pipeline
  pc,          \* position of the start-up callback handed to waitOn
  vaccineSchema, \* makeGatewaySchema: the wrapped vaccine schema
  covidSchema,   \* makeGatewaySchema: the introspected covid schema
  schema,      \* the stitched gateway schema of the start-up callback
  listening,   \* app.listen(4000) has been called
  introspection, \* per backend, what the backend answered to introspection
  req,         \* per client connection, the query being executed
  running,     \* the client whose synchronous pass is executing
  lastExec     \* the last completed executor invocation

fnVars == <<fnKeys, fnResponse, fnGroups, fnOut, fnPc>>
gwVars == <<pc, vaccineSchema, covidSchema, schema, listening, introspection,
            req, running, lastExec>>
vars == <<fnVars, gwVars>>

---------------------------------------------------------------------------
(* Bounds of the model. *)
MaxKeys == 4
MaxRows == 3
MaxSiblings == 2

(* Data. *)
Codes == {"01", "02", "06"}          \* state FIPS codes
NoCode == "null"                     \* stateFipsCode not selected, or null
RowCodes == Codes \cup {NoCode}

\* JavaScript's undefined, as a record so that it compares with records.
Undefined == [undefined |-> TRUE]

SeqsUpTo(S, n) == UNION {[1..k -> S] : k \in 0..n}

\* JavaScript truthiness of a stateFipsCode value.
Truthy(c) == c # NoCode

Throw(msg) == [throw |-> msg]
Return(v) == [value |-> v]
Throws(o) == "throw" \in DOMAIN o

---------------------------------------------------------------------------
(* The remote answer: a connection object exposing an edge sequence and/or *)
(* a node sequence over the same rows, each shape selected with or without *)
(* the stateFipsCode field.                                                *)
Shapes == {"absent", "key", "nokey"}

MkNode(c, sel) == [stateFipsCode |-> IF sel = "key" THEN c ELSE NoCode]
MkEdge(c, sel) == [node |-> MkNode(c, sel)]

Connection(rows, es, ns) ==
  [f \in {"totalCount"} \cup (IF es = "absent" THEN {} ELSE {"edges"})
                        \cup (IF ns = "absent" THEN {} ELSE {"nodes"}) |->
     IF f = "edges" THEN [i \in 1..Len(rows) |-> MkEdge(rows[i], es)]
     ELSE IF f = "nodes" THEN [i \in 1..Len(rows) |-> MkNode(rows[i], ns)]
     ELSE Len(rows)]

---------------------------------------------------------------------------
(* resultTransformer: one group per entry of the answer. *)

\* Variant: the branch that merges the two shapes is missing.
MutTransformerNoMerge(result) ==
  IF "nodes" \in DOMAIN result
  THEN [list |-> [i \in 1..Len(result.nodes) |-> [nodes |-> <<result.nodes[i]>>]]]
  ELSE IF "edges" \in DOMAIN result
  THEN [list |-> [i \in 1..Len(result.edges) |-> [edges |-> <<result.edges[i]>>]]]
  ELSE Undefined

resultTransformer(result) ==
  LET edges == IF "edges" \in DOMAIN result
               THEN [list |-> [i \in 1..Len(result.edges) |->
                                 [edges |-> <<result.edges[i]>>]]]
               ELSE Undefined
      nodes == IF "nodes" \in DOMAIN result
               THEN [list |-> [i \in 1..Len(result.nodes) |->
                                 [nodes |-> <<result.nodes[i]>>]]]
               ELSE Undefined
  IN  IF nodes # Undefined /\ edges # Undefined
      THEN [list |-> [index \in 1..Len(nodes.list) |->
                        IF index <= Len(edges.list)
                        THEN [nodes |-> nodes.list[index].nodes,
                              edges |-> edges.list[index].edges]
                        ELSE [nodes |-> nodes.list[index].nodes]]]
      ELSE IF nodes # Undefined THEN nodes ELSE edges

---------------------------------------------------------------------------
(* valuesFromResults: keys.map(key => results.find(predicate)). *)

\* Variant: the presence of stateFipsCode is not checked.
MutElementTestNoKeyCheck(element, key) ==
  IF "edges" \in DOMAIN element
  THEN [match |-> element.edges[1].node.stateFipsCode = key]
  ELSE IF "nodes" \in DOMAIN element
  THEN [match |-> element.nodes[1].stateFipsCode = key]
  ELSE Throw("Query needs nodes or edges")

\* The predicate handed to find: [match |-> b] or a throw.
ElementTest(element, key) ==
  IF "edges" \in DOMAIN element
  THEN IF element.edges = <<>>
       THEN Throw("TypeError")
       ELSE IF ~Truthy(element.edges[1].node.stateFipsCode)
            THEN Throw("Need stateFipsCode in Query for edges")
            ELSE [match |-> element.edges[1].node.stateFipsCode = key]
  ELSE IF "nodes" \in DOMAIN element
  THEN IF element.nodes = <<>>
       THEN Throw("TypeError")
       ELSE IF ~Truthy(element.nodes[1].stateFipsCode)
            THEN Throw("Need stateFipsCode in Query for nodes")
            ELSE [match |-> element.nodes[1].stateFipsCode = key]
  ELSE Throw("Query needs nodes or edges")

\* Array.prototype.find from position i: the first element the predicate
\* accepts, undefined when there is none; a throw of the predicate ends it.
RECURSIVE FindFrom(_, _, _)
FindFrom(list, key, i) ==
  IF i > Len(list) THEN Return(Undefined)
  ELSE LET t == ElementTest(list[i], key)
       IN  IF Throws(t) THEN t
           ELSE IF t.match THEN Return(list[i])
           ELSE FindFrom(list, key, i + 1)

RECURSIVE MapFrom(_, _, _)
MapFrom(results, keys, i) ==
  IF i > Len(keys) THEN Return(<<>>)
  ELSE IF "list" \notin DOMAIN results
       THEN Throw("TypeError")          \* results.find on a non-array
       ELSE LET r == FindFrom(results.list, keys[i], 1)
            IN  IF Throws(r) THEN r
                ELSE LET rest == MapFrom(results, keys, i + 1)
                     IN  IF Throws(rest) THEN rest
                         ELSE Return(<<r.value>> \o rest.value)

\* Variant: the results are returned in the order the backend gave them.
MutValuesNaturalOrder(results, keys) ==
  IF "list" \in DOMAIN results THEN Return(results.list) ELSE Throw("TypeError")

\* Variant: keys without a match are dropped from the value sequence.
MutValuesDropUnmatched(results, keys) ==
  LET o == MapFrom(results, keys, 1)
  IN  IF Throws(o) THEN o
      ELSE Return(SelectSeq(o.value, LAMBDA v : v # Undefined))

valuesFromResults(results, keys) == MapFrom(results, keys, 1)

---------------------------------------------------------------------------
(* The remote executor. *)
Backends == {"vaccine", "covid"}
VaccineUrl == "https://vaccination-capsc6nslq-uc.a.run.app/graphql"
CovidUrl == "https://helloworld-capsc6nslq-uc.a.run.app/graphql"
adminContext == [authHeader |-> "Bearer my-app-to-app-token"]

\* Authorization headers a client may send; NoAuth: the header is missing.
NoAuth == "undefined"
Inbound == {"Bearer alice", "Bearer bob"}
Clients == {"c1", "c2"}
Statuses == {200, 500}

\* The POST the executor hands to fetch.
FetchRequest(url, query, variables, context) ==
  [url |-> url,
   authorization |-> context.authHeader,
   query |-> query,
   variables |-> variables]

\* What the network may answer: no answer at all, or a status with a body
\* that is JSON or not.
Answers(bodies) ==
  {[net |-> "error", status |-> 0, json |-> FALSE, body |-> Undefined]}
  \cup {[net |-> "ok", status |-> st, json |-> FALSE, body |-> Undefined] :
          st \in Statuses}
  \cup {[net |-> "ok", status |-> st, json |-> TRUE, body |-> b] :
          st \in Statuses, b \in bodies}

\* Variant: a body that is not JSON is taken for an empty object.
MutExecutorEmptyOnBadBody(answer) ==
  IF answer.net = "error" THEN Throw("FetchError")
  ELSE IF ~answer.json THEN Return([errors |-> FALSE, data |-> Undefined])
  ELSE Return(answer.body)

\* Variant: a failed fetch is caught and an empty object returned.
MutExecutorSwallowsFetchError(answer) ==
  IF answer.net = "error" THEN Return([errors |-> FALSE, data |-> Undefined])
  ELSE IF ~answer.json THEN Throw("SyntaxError")
  ELSE Return(answer.body)

\* await fetch(...); await fetchResult.json(); return result.
makeRemoteExecutor(answer) ==
  IF answer.net = "error" THEN Throw("FetchError")
  ELSE IF ~answer.json THEN Throw("SyntaxError")
  ELSE Return(answer.body)

\* An executor invocation that completed in the job now running.
ExecRecord(answer, result) ==
  [net |-> answer.net, status |-> answer.status, json |-> answer.json,
   threw |-> Throws(result)]
NoExec == [net |-> "none", status |-> 0, json |-> FALSE, threw |-> FALSE]

---------------------------------------------------------------------------
(* Start-up: makeGatewaySchema and the callback handed to waitOn. *)
IntrospectionBodies ==
  {[errors |-> TRUE, data |-> Undefined],
   [errors |-> FALSE, data |-> Undefined],
   [errors |-> FALSE, data |-> [schema |-> "types"]]}

\* Variant: the errors of the introspection answer are ignored.
MutIntrospectIgnoresErrors(result) ==
  IF Throws(result) THEN result ELSE Return("types")

\* introspectSchema(executor, adminContext): rejects when the executor
\* rejects or the answer holds errors or no schema.
introspectSchema(result) ==
  IF Throws(result) THEN result
  ELSE IF result.value.errors \/ result.value.data = Undefined
       THEN Throw("IntrospectionError")
       ELSE Return(result.value.data.schema)

\* The backend answered the introspection query with a schema.
Introspectable(answer) ==
  /\ answer.net = "ok" /\ answer.json
  /\ ~answer.body.errors /\ answer.body.data # Undefined

StartIntrospection ==
  /\ pc = "boot"
  /\ pc' = "awaitVaccine"
  /\ UNCHANGED <<vaccineSchema, covidSchema, schema, listening, introspection,
                 req, running, lastExec>>
  /\ UNCHANGED fnVars

VaccineIntrospected ==
  /\ pc = "awaitVaccine"
  /\ \E answer \in Answers(IntrospectionBodies) :
       LET result == makeRemoteExecutor(answer)
           described == introspectSchema(result)
       IN  /\ lastExec' = ExecRecord(answer, result)
           /\ introspection' = [introspection EXCEPT !["vaccine"] =
                                  IF Introspectable(answer) THEN "ok" ELSE "failed"]
           /\ IF Throws(described)
              THEN pc' = "crashed" /\ UNCHANGED vaccineSchema
              ELSE pc' = "awaitCovid" /\ vaccineSchema' = "wrapped"
  /\ UNCHANGED <<covidSchema, schema, listening, req, running>>
  /\ UNCHANGED fnVars

CovidIntrospected ==
  /\ pc = "awaitCovid"
  /\ \E answer \in Answers(IntrospectionBodies) :
       LET result == makeRemoteExecutor(answer)
           described == introspectSchema(result)
       IN  /\ lastExec' = ExecRecord(answer, result)
           /\ introspection' = [introspection EXCEPT !["covid"] =
                                  IF Introspectable(answer) THEN "ok" ELSE "failed"]
           /\ IF Throws(described)
              THEN pc' = "crashed" /\ UNCHANGED covidSchema
              ELSE pc' = "stitch" /\ covidSchema' = "introspected"
  /\ UNCHANGED <<vaccineSchema, schema, listening, req, running>>
  /\ UNCHANGED fnVars

StitchSchemas ==
  /\ pc = "stitch"
  /\ schema' = "stitched"
  /\ pc' = "listen"
  /\ UNCHANGED <<vaccineSchema, covidSchema, listening, introspection,
                 req, running, lastExec>>
  /\ UNCHANGED fnVars

\* Variant: the callback does not await makeGatewaySchema before app.listen.
MutListenWithoutAwait == pc \in {"boot", "awaitVaccine", "awaitCovid", "stitch", "listen"}

\* app.listen is reached once `await makeGatewaySchema()` has returned.
ListenReady == pc = "listen"

Listen ==
  /\ ListenReady
  /\ listening' = TRUE
  /\ pc' = "serving"
  /\ lastExec' = NoExec
  /\ UNCHANGED <<vaccineSchema, covidSchema, schema, introspection, req, running>>
  /\ UNCHANGED fnVars

---------------------------------------------------------------------------
(* One client query: the root field allStateMetas, then StateMeta.hey or   *)
(* StateMeta.batch on every StateMeta it returned.  Execution is           *)
(* run-to-completion: the continuation of an answered call (`running`)     *)
(* ends before another answer or request is handled.                       *)
Range(f) == {f[i] : i \in DOMAIN f}
IndexOf(list, x) == CHOOSE i \in 1..Len(list) : list[i] = x

IdleReq ==
  [phase |-> "idle",
   headers |-> [authorization |-> NoAuth],
   context |-> Undefined,
   field |-> "none",
   parents |-> <<>>,     \* the StateMeta objects of the root result
   next |-> 1,           \* the next parent whose field is resolved
   callers |-> <<>>,     \* the key of every load, in call order
   keys |-> <<>>,        \* the keys of the batch window
   sent |-> <<>>,        \* the POSTs made for this query
   pending |-> 0,        \* single-key delegations in flight
   answer |-> Undefined, \* the network's answer to the batched call
   groups |-> Undefined, \* the results handed to valuesFromResults
   results |-> <<>>]     \* per caller, what its load settled with

\* Variant: every query runs under the context of the start-up calls.
MutAdminContext(headers) == adminContext

\* graphqlHTTP((req) => ({schema, context: {authHeader: ...}})).
RequestContext(headers) == [authHeader |-> headers.authorization]

argsFromKeys(stateFipsCode) == [filter |-> [stateFipsCode |-> [in |-> stateFipsCode]]]

\* StateMeta.hey: delegateToSchema, one remote query per parent.
hey(r, parent) ==
  [r EXCEPT !.sent = Append(@, FetchRequest(VaccineUrl,
                                 "fipsCodeStateByStateFipsCode",
                                 [stateFipsCode |-> parent.stateFipsCode],
                                 r.context)),
            !.pending = @ + 1]

\* Variant: batch delegates each parent on its own, as hey does.
MutBatchPerKey(r, parent) ==
  [r EXCEPT !.sent = Append(@, FetchRequest(VaccineUrl, "allFipsCodeStates",
                                 argsFromKeys(<<parent.stateFipsCode>>),
                                 r.context)),
            !.pending = @ + 1]

\* StateMeta.batch: batchDelegateToSchema with key parent.stateFipsCode; the
\* key joins the window of this query, no remote query is made.
batch(r, parent) ==
  [r EXCEPT !.callers = Append(@, parent.stateFipsCode),
            !.keys = IF parent.stateFipsCode \in Range(@)
                     THEN @ ELSE Append(@, parent.stateFipsCode)]

\* The window's one delegated query, made with the context of the query.
BatchRequest(r) ==
  FetchRequest(VaccineUrl, "allFipsCodeStates", argsFromKeys(r.keys), r.context)

RootBodies ==
  {[errors |-> TRUE, data |-> Undefined],
   [errors |-> FALSE, data |-> Undefined]}
  \cup {[errors |-> FALSE, data |-> [allStateMetas |-> rows]] :
          rows \in SeqsUpTo(Codes, MaxSiblings)}

HeyBodies ==
  {[errors |-> TRUE, data |-> Undefined],
   [errors |-> FALSE, data |-> [fipsCodeStateByStateFipsCode |-> "state"]]}

\* The backend filters on stateFipsCode in keys: its rows carry a requested
\* code, or none at all.
BatchBodies(keys) ==
  {[errors |-> TRUE, data |-> Undefined],
   [errors |-> FALSE, data |-> Undefined]}
  \cup {[errors |-> FALSE, data |-> [allFipsCodeStates |-> Connection(rows, es, ns)]] :
          rows \in SeqsUpTo(Range(keys) \cup {NoCode}, MaxRows),
          es \in Shapes, ns \in Shapes}

\* The answers of a backend that returns the requested rows, in key order,
\* to a query that selects stateFipsCode in the shapes it asks for.
EchoBodies(keys) ==
  {[errors |-> TRUE, data |-> Undefined],
   [errors |-> FALSE, data |-> Undefined]}
  \cup {[errors |-> FALSE, data |-> [allFipsCodeStates |-> Connection(keys, es, ns)]] :
          es \in {"absent", "key"}, ns \in {"absent", "key"}}

\* The delegated query's result as the batch function sees it: a rejection,
\* an Error, null, or the transformed value of allFipsCodeStates.
DelegatedResults(result) ==
  IF Throws(result) THEN result
  ELSE IF result.value.errors THEN Return([error |-> "GraphQLError"])
  ELSE IF result.value.data = Undefined THEN Return(Undefined)
  ELSE Return(resultTransformer(result.value.data.allFipsCodeStates))

\* The batch function: one value per key of the window, or a rejection.
BatchValues(keys, result) ==
  LET results == DelegatedResults(result)
  IN  IF Throws(results) THEN results
      ELSE IF "error" \in DOMAIN results.value
           THEN Return([k \in 1..Len(keys) |-> results.value])
           ELSE valuesFromResults(results.value, keys)

\* What the load of `key` settles with: the loader rejects every load when
\* the batch function rejects, and a load whose value is an Error.
Settle(keys, values, key) ==
  IF Throws(values) THEN [fail |-> values.throw]
  ELSE LET v == values.value[IndexOf(keys, key)]
       IN  IF "error" \in DOMAIN v THEN [fail |-> v.error] ELSE [ok |-> v]

Arrive(c) ==
  /\ listening
  /\ running = "none"
  /\ req[c].phase = "idle"
  /\ \E auth \in Inbound, field \in {"hey", "batch"} :
       LET headers == [authorization |-> auth]
           context == RequestContext(headers)
       IN  req' = [req EXCEPT ![c] =
                     [IdleReq EXCEPT !.phase = "root",
                                     !.headers = headers,
                                     !.context = context,
                                     !.field = field,
                                     !.sent = <<FetchRequest(CovidUrl, "allStateMetas",
                                                  [orderBy |-> "POPULATION_DESC"],
                                                  context)>>]]
  /\ UNCHANGED <<pc, vaccineSchema, covidSchema, schema, listening,
                 introspection, running, lastExec>>
  /\ UNCHANGED fnVars

RootDone(c) ==
  /\ running = "none"
  /\ req[c].phase = "root"
  /\ \E answer \in Answers(RootBodies) :
       LET result == makeRemoteExecutor(answer)
           failed == \/ Throws(result)
                     \/ result.value.errors
                     \/ result.value.data = Undefined
       IN  /\ lastExec' = ExecRecord(answer, result)
           /\ req' = [req EXCEPT ![c] =
                        IF failed
                        THEN [@ EXCEPT !.phase = "done"]
                        ELSE [@ EXCEPT !.phase = "pass",
                                       !.parents = result.value.data.allStateMetas]]
  /\ running' = c
  /\ UNCHANGED <<pc, vaccineSchema, covidSchema, schema, listening, introspection>>
  /\ UNCHANGED fnVars

ResolveField(c) ==
  /\ running = c
  /\ req[c].phase = "pass"
  /\ req[c].next <= Len(req[c].parents)
  /\ LET parent == [stateFipsCode |-> req[c].parents[req[c].next]]
         r == [req[c] EXCEPT !.next = @ + 1]
     IN  req' = [req EXCEPT ![c] = IF r.field = "hey" THEN hey(r, parent)
                                                      ELSE batch(r, parent)]
  /\ UNCHANGED <<pc, vaccineSchema, covidSchema, schema, listening,
                 introspection, running, lastExec>>
  /\ UNCHANGED fnVars

EndPass(c) ==
  /\ running = c
  /\ req[c].phase = "pass"
  /\ req[c].next > Len(req[c].parents)
  /\ LET to == IF req[c].callers # <<>> THEN "queued"
               ELSE IF req[c].pending > 0 THEN "inflight" ELSE "done"
     IN  /\ req' = [req EXCEPT ![c].phase = to]
         /\ running' = IF to = "done" THEN c ELSE "none"
  /\ lastExec' = NoExec
  /\ UNCHANGED <<pc, vaccineSchema, covidSchema, schema, listening, introspection>>
  /\ UNCHANGED fnVars

\* batchDelegateToSchema loads each key on a DataLoader kept per query and
\* field; the loader calls its batch function once for the keys loaded in a
\* pass, on the tick after the pass.
Dispatch(c) ==
  /\ running = "none"
  /\ req[c].phase = "queued"
  /\ req' = [req EXCEPT ![c].phase = "inflight",
                        ![c].sent = Append(@, BatchRequest(req[c]))]
  /\ UNCHANGED <<pc, vaccineSchema, covidSchema, schema, listening,
                 introspection, running, lastExec>>
  /\ UNCHANGED fnVars

HeyDone(c) ==
  /\ running = "none"
  /\ req[c].phase = "inflight"
  /\ req[c].pending > 0
  /\ \E answer \in Answers(HeyBodies) :
       lastExec' = ExecRecord(answer, makeRemoteExecutor(answer))
  /\ req' = [req EXCEPT ![c].pending = @ - 1,
                        ![c].phase = IF req[c].pending = 1 THEN "done" ELSE @]
  /\ running' = c
  /\ UNCHANGED <<pc, vaccineSchema, covidSchema, schema, listening, introspection>>
  /\ UNCHANGED fnVars

BatchDone(c, bodies) ==
  /\ running = "none"
  /\ req[c].phase = "inflight"
  /\ req[c].callers # <<>>
  /\ \E answer \in Answers(bodies) :
       LET result == makeRemoteExecutor(answer)
           results == DelegatedResults(result)
           values == BatchValues(req[c].keys, result)
       IN  /\ lastExec' = ExecRecord(answer, result)
           /\ req' = [req EXCEPT
                ![c].phase = "done",
                ![c].answer = answer,
                ![c].groups = IF Throws(results) THEN Undefined ELSE results.value,
                ![c].results = [i \in 1..Len(req[c].callers) |->
                                  Settle(req[c].keys, values, req[c].callers[i])]]
  /\ running' = c
  /\ UNCHANGED <<pc, vaccineSchema, covidSchema, schema, listening, introspection>>
  /\ UNCHANGED fnVars

\* A single-key delegation has settled and others are still in flight.
HeySettled(c) ==
  /\ running = c
  /\ req[c].phase = "inflight"
  /\ running' = "none"
  /\ lastExec' = NoExec
  /\ UNCHANGED <<pc, vaccineSchema, covidSchema, schema, listening,
                 introspection, req>>
  /\ UNCHANGED fnVars

\* The response is written and the state of the query dropped.
Respond(c) ==
  /\ running = c
  /\ req[c].phase = "done"
  /\ req' = [req EXCEPT ![c] = IdleReq]
  /\ running' = "none"
  /\ lastExec' = NoExec
  /\ UNCHANGED <<pc, vaccineSchema, covidSchema, schema, listening, introspection>>
  /\ UNCHANGED fnVars

GwInit ==
  /\ pc = "boot"
  /\ vaccineSchema = "none"
  /\ covidSchema = "none"
  /\ schema = "none"
  /\ listening = FALSE
  /\ introspection = [b \in Backends |-> "none"]
  /\ req = [c \in Clients |-> IdleReq]
  /\ running = "none"
  /\ lastExec = NoExec

FnIdle ==
  /\ fnKeys = <<>>
  /\ fnResponse = Undefined
  /\ fnGroups = Undefined
  /\ fnOut = Undefined
  /\ fnPc = "off"

Init == GwInit /\ FnIdle

Next ==
  \/ StartIntrospection
  \/ VaccineIntrospected
  \/ CovidIntrospected
  \/ StitchSchemas
  \/ Listen
  \/ \E c \in Clients : Arrive(c)
  \/ \E c \in Clients : RootDone(c)
  \/ \E c \in Clients : ResolveField(c)
  \/ \E c \in Clients : EndPass(c)
  \/ \E c \in Clients : Dispatch(c)
  \/ \E c \in Clients : HeyDone(c)
  \/ \E c \in Clients : HeySettled(c)
  \/ \E c \in Clients : BatchDone(c, EchoBodies(req[c].keys))
  \/ \E c \in Clients : Respond(c)

\* Two client connections served at once; the vaccine backend answers a
\* batched query with the requested rows, with errors, or not at all.
Spec == Init /\ [][Next]_vars

NextWindow ==
  \/ StartIntrospection
  \/ VaccineIntrospected
  \/ CovidIntrospected
  \/ StitchSchemas
  \/ Listen
  \/ Arrive("c1")
  \/ RootDone("c1")
  \/ ResolveField("c1")
  \/ EndPass("c1")
  \/ Dispatch("c1")
  \/ HeyDone("c1")
  \/ HeySettled("c1")
  \/ BatchDone("c1", BatchBodies(req["c1"].keys))
  \/ Respond("c1")

\* One client connection; the vaccine backend answers a batched query with
\* any rows, in any order and shape.
SpecWindow == Init /\ [][NextWindow]_vars

---------------------------------------------------------------------------
(* The two callbacks on bounded inputs. *)
FnInputs ==
  /\ fnKeys \in SeqsUpTo(Codes, MaxKeys)
  /\ fnResponse \in {Connection(rows, es, ns) :
                       rows \in SeqsUpTo(RowCodes, MaxRows),
                       es \in Shapes, ns \in Shapes}
  /\ fnGroups = Undefined
  /\ fnOut = Undefined
  /\ fnPc = "start"

Transform ==
  /\ fnPc = "start"
  /\ fnGroups' = resultTransformer(fnResponse)
  /\ fnPc' = "transformed"
  /\ UNCHANGED <<fnKeys, fnResponse, fnOut>>
  /\ UNCHANGED gwVars

Map ==
  /\ fnPc = "transformed"
  /\ fnOut' = valuesFromResults(fnGroups, fnKeys)
  /\ fnPc' = "mapped"
  /\ UNCHANGED <<fnKeys, fnResponse, fnGroups>>
  /\ UNCHANGED gwVars

FnNext == Transform \/ Map

FnInit == FnInputs /\ GwInit

\* resultTransformer, then valuesFromResults, on every bounded input.
SpecFn == FnInit /\ [][FnNext]_vars
---------------------------------------------------------------------------
(* Vocabulary of the properties of the two callbacks. *)

\* The group carries code k in one of its shapes.
Carries(g, k) ==
  \/ "edges" \in DOMAIN g /\ \E e \in 1..Len(g.edges) :
                               g.edges[e].node.stateFipsCode = k
  \/ "nodes" \in DOMAIN g /\ \E n \in 1..Len(g.nodes) :
                               g.nodes[n].stateFipsCode = k

\* Every shape the group exposes carries a (non-null) code in every entry.
Keyed(g) ==
  /\ DOMAIN g \cap {"edges", "nodes"} # {}
  /\ "edges" \in DOMAIN g =>
       /\ g.edges # <<>>
       /\ \A e \in 1..Len(g.edges) : Truthy(g.edges[e].node.stateFipsCode)
  /\ "nodes" \in DOMAIN g =>
       /\ g.nodes # <<>>
       /\ \A n \in 1..Len(g.nodes) : Truthy(g.nodes[n].stateFipsCode)

IsList(results) == "list" \in DOMAIN results
AllKeyed(results) ==
  IsList(results) /\ \A p \in 1..Len(results.list) : Keyed(results.list[p])
Matched(results, k) ==
  IsList(results) /\ \E p \in 1..Len(results.list) : Carries(results.list[p], k)

InsertAt(list, p, g) == SubSeq(list, 1, p - 1) \o <<g>> \o SubSeq(list, p, Len(list))
Rec(c) == [edges |-> <<MkEdge(c, "key")>>]

\* C2: on keyed result groups valuesFromResults returns, and whenever it
\* returns, its value has one slot per key, in key order, repeated keys
\* included, and the slot of a key that some group carries holds a group of
\* the results that carries that key.
C2_SlotPerKeyInKeyOrder ==
  fnPc = "mapped" =>
    /\ AllKeyed(fnGroups) => ~Throws(fnOut)
    /\ ~Throws(fnOut) =>
         /\ Len(fnOut.value) = Len(fnKeys)
         /\ \A i \in 1..Len(fnKeys) :
              Matched(fnGroups, fnKeys[i]) =>
                /\ \E p \in 1..Len(fnGroups.list) : fnOut.value[i] = fnGroups.list[p]
                /\ Carries(fnOut.value[i], fnKeys[i])

\* The scenario of the specification: keys 06,02,01,01 against records
\* returned in the order 06,01,02.
C2_Witness ==
  /\ fnPc = "mapped"
  /\ fnKeys = <<"06", "02", "01", "01">>
  /\ fnGroups = [list |-> <<Rec("06"), Rec("01"), Rec("02")>>]
  /\ fnOut = Return(<<Rec("06"), Rec("02"), Rec("01"), Rec("01")>>)

\* C3: when valuesFromResults returns, a key that no result group carries
\* has undefined in its own slot, and the slots of the other keys are the
\* ones the call yields when a record of that key is present, wherever it
\* stands in the results (no index shift).
C3_UnmatchedKeyIsUndefinedNoShift ==
  (fnPc = "mapped" /\ ~Throws(fnOut)) =>
    /\ Len(fnOut.value) = Len(fnKeys)
    /\ \A i \in 1..Len(fnKeys) :
         ~Matched(fnGroups, fnKeys[i]) =>
           /\ fnOut.value[i] = Undefined
           /\ IsList(fnGroups) =>
                \A p \in 1..(Len(fnGroups.list) + 1) :
                  LET with == valuesFromResults(
                                [list |-> InsertAt(fnGroups.list, p, Rec(fnKeys[i]))],
                                fnKeys)
                  IN  /\ ~Throws(with)
                      /\ \A j \in 1..Len(fnKeys) :
                           with.value[j] = IF fnKeys[j] = fnKeys[i]
                                           THEN Rec(fnKeys[i])
                                           ELSE fnOut.value[j]

\* An unmatched key stands before and between matched ones.
C3_Witness ==
  /\ fnPc = "mapped"
  /\ ~Throws(fnOut)
  /\ fnKeys = <<"02", "06", "02", "01">>
  /\ IsList(fnGroups) /\ Len(fnGroups.list) = 2
  /\ ~Matched(fnGroups, "02")
  /\ fnOut.value[1] = Undefined /\ fnOut.value[3] = Undefined
  /\ fnOut.value[2] # Undefined /\ fnOut.value[4] # Undefined

\* C9: an answer with both shapes, of equal length L, is transformed into L
\* groups, group i holding edge i as its edges and node i as its nodes; an
\* answer with one shape into one single-entry group per entry, in order.
C9_GroupPerPosition ==
  fnPc # "start" =>
    LET hasE == "edges" \in DOMAIN fnResponse
        hasN == "nodes" \in DOMAIN fnResponse
    IN  /\ (hasE /\ hasN /\ Len(fnResponse.edges) = Len(fnResponse.nodes)) =>
             /\ IsList(fnGroups)
             /\ Len(fnGroups.list) = Len(fnResponse.edges)
             /\ \A i \in 1..Len(fnGroups.list) :
                  fnGroups.list[i] = [edges |-> <<fnResponse.edges[i]>>,
                                      nodes |-> <<fnResponse.nodes[i]>>]
        /\ (hasE /\ ~hasN) =>
             /\ IsList(fnGroups)
             /\ Len(fnGroups.list) = Len(fnResponse.edges)
             /\ \A i \in 1..Len(fnGroups.list) :
                  fnGroups.list[i] = [edges |-> <<fnResponse.edges[i]>>]
        /\ (hasN /\ ~hasE) =>
             /\ IsList(fnGroups)
             /\ Len(fnGroups.list) = Len(fnResponse.nodes)
             /\ \A i \in 1..Len(fnGroups.list) :
                  fnGroups.list[i] = [nodes |-> <<fnResponse.nodes[i]>>]

\* Both shapes over three different rows have been transformed.
C9_Witness ==
  /\ fnPc = "transformed"
  /\ fnResponse = Connection(<<"06", "01", "02">>, "key", "key")
  /\ IsList(fnGroups) /\ Len(fnGroups.list) = 3
  /\ fnGroups.list[2] = [edges |-> <<MkEdge("01", "key")>>,
                         nodes |-> <<MkNode("01", "key")>>]
---------------------------------------------------------------------------
(* Vocabulary of the properties of the gateway. *)
BatchCalls(r) == {i \in 1..Len(r.sent) : r.sent[i].query = "allFipsCodeStates"}
Failed(r) == \A i \in 1..Len(r.results) : "fail" \in DOMAIN r.results[i]
FailedWith(r, msgs) ==
  \A i \in 1..Len(r.results) :
    "fail" \in DOMAIN r.results[i] /\ r.results[i].fail \in msgs
Resolved(r) == \A i \in 1..Len(r.results) : "ok" \in DOMAIN r.results[i]
\* The batched call of the query has been answered and its window settled.
WindowSettled(r) ==
  r.phase = "done" /\ r.answer # Undefined /\ Len(r.results) = Len(r.callers)

\* C1: the N sibling StateMeta.batch resolutions of a query cause at most
\* one allFipsCodeStates call, exactly one once the window is dispatched,
\* and that call is made after all N have registered and asks for their keys.
C1_OneBatchedCallAfterAllSiblings ==
  \A c \in Clients :
    LET r == req[c]
        n == Cardinality(BatchCalls(r))
    IN  /\ n <= 1
        /\ (r.field = "batch" /\ r.parents # <<>> /\ r.phase \in {"inflight", "done"})
             => n = 1
        /\ n = 1 =>
             /\ r.next > Len(r.parents)
             /\ Len(r.callers) = Len(r.parents)
             /\ Range(r.keys) = Range(r.parents)
             /\ \A i \in BatchCalls(r) : r.sent[i].variables = argsFromKeys(r.keys)

\* Two siblings have registered and the one call is in flight.
C1_Witness ==
  \E c \in Clients :
    /\ req[c].field = "batch"
    /\ req[c].phase = "inflight"
    /\ Len(req[c].callers) >= 2
    /\ Cardinality(BatchCalls(req[c])) = 1

\* C5 as stated: a network error or a non-success status makes the executor
\* throw.
C5_NonSuccessStatusThrows ==
  lastExec.net # "none" =>
    ((lastExec.net = "error" \/ lastExec.status # 200) => lastExec.threw)

\* C5 amended: the executor throws exactly when the network fails or the
\* body is not JSON; a JSON body is returned whatever the status.
C5_ThrowsIffNoJsonAnswer ==
  lastExec.net # "none" =>
    (lastExec.threw <=> (lastExec.net = "error" \/ ~lastExec.json))

\* A non-success answer whose body is not JSON has made the executor throw.
C5_Witness ==
  lastExec.net = "ok" /\ lastExec.status = 500 /\ ~lastExec.json /\ lastExec.threw

\* C7: every POST made for a client query carries the Authorization header
\* that query arrived with.
C7_OutboundHeaderIsInboundHeader ==
  \A c \in Clients :
    \A i \in 1..Len(req[c].sent) :
      req[c].sent[i].authorization = req[c].headers.authorization

\* Two queries with different credentials are in flight, one on the batched
\* path and one on the single-key path.
C7_Witness ==
  /\ req["c1"].headers.authorization # req["c2"].headers.authorization
  /\ req["c1"].field = "batch" /\ req["c1"].phase = "inflight"
  /\ req["c2"].field = "hey" /\ req["c2"].phase = "inflight"

\* C8: the gateway listens only once both backends answered introspection
\* with a schema and the gateway schema is stitched; after a failed
\* introspection it does not listen.
C8_ListenOnlyAfterIntrospection ==
  /\ listening =>
       /\ \A b \in Backends : introspection[b] = "ok"
       /\ vaccineSchema = "wrapped" /\ covidSchema = "introspected"
       /\ schema = "stitched"
  /\ (\E b \in Backends : introspection[b] = "failed") => ~listening

\* The gateway listens.
C8_Witness ==
  listening /\ pc = "serving" /\ \A b \in Backends : introspection[b] = "ok"
---------------------------------------------------------------------------
(* The settled batch window. *)

\* No shape of the group carries a code: it can be correlated to no key.
Uncorrelatable(g) == \A k \in Codes : ~Carries(g, k)

\* The shape the search reads, edges before nodes, carries no code.
Unreadable(g) ==
  IF "edges" \in DOMAIN g THEN ~Truthy(g.edges[1].node.stateFipsCode)
                          ELSE ~Truthy(g.nodes[1].stateFipsCode)
ReadCode(g) ==
  IF "edges" \in DOMAIN g THEN g.edges[1].node.stateFipsCode
                          ELSE g.nodes[1].stateFipsCode

\* The search for key k reaches position p of the list.
Reaches(list, k, p) ==
  \A q \in 1..(p - 1) : ~Unreadable(list[q]) /\ ReadCode(list[q]) # k

CorrelationErrors ==
  {"Need stateFipsCode in Query for edges", "Need stateFipsCode in Query for nodes"}

C6_FailedCallFailsEveryCaller ==
  \A c \in Clients :
    LET r == req[c] IN
    (r.phase = "done" /\ r.answer # Undefined) =>
      /\ Len(r.results) = Len(r.callers)
      /\ Cardinality(BatchCalls(r)) = 1
      /\ r.answer.net = "error" => FailedWith(r, {"FetchError"})
      /\ (r.answer.net = "ok" /\ ~r.answer.json) => FailedWith(r, {"SyntaxError"})
      /\ (r.answer.json /\ r.answer.body.errors) => FailedWith(r, {"GraphQLError"})

\* The network failed under a window of two callers, and both failed.
C6_Witness ==
  \E c \in Clients :
    /\ WindowSettled(req[c])
    /\ req[c].answer.net = "error"
    /\ Len(req[c].callers) >= 2
    /\ FailedWith(req[c], {"FetchError"})

\* The answer to the batched call exposes neither edges nor nodes.
NoShape(answer) ==
  /\ answer.json /\ ~answer.body.errors /\ answer.body.data # Undefined
  /\ DOMAIN answer.body.data.allFipsCodeStates \cap {"edges", "nodes"} = {}

\* C10: an answer that exposes neither edges nor nodes fails every pending
\* caller with the error "Query needs nodes or edges".
C10_NoShapeIsDescriptiveError ==
  \A c \in Clients :
    (WindowSettled(req[c]) /\ NoShape(req[c].answer))
      => FailedWith(req[c], {"Query needs nodes or edges"})
====
